---- MODULE Spec2Model ----
(***************************************************************************)
(* Time-series metrics pipeline of the cluster-management backend:         *)
(* the resolution policy, the uniform-stride decimation and the request    *)
(* handler of MetricsController, and the batch regeneration script that    *)
(* writes the six consolidated dataset files of a cluster.                 *)
(*                                                                         *)
(* Timestamps are whole minutes since the model's epoch (the code keeps    *)
(* ISO-8601 strings with zero seconds and compares them as instants).      *)
(* Metric values are tenths (the code rounds every value to one decimal).  *)
(***************************************************************************)
EXTENDS Integers, Sequences, FiniteSets, TLC

\* ------------------------------------------------------------------ bounds
\* Longest series handed to the decimation step on its own.
MaxSeriesLen == 200

\* --------------------------------------------------------------- the types
TimeRanges == {"1h", "6h", "24h", "7d", "30d", "90d"}
Resolutions == {"1min", "5min", "15min", "1h", "6h", "1d"}
\* Strings that are no TimeRange (the type is erased at run time).
UnrecognizedRanges == {"invalid", "12h", ""}
\* What JavaScript yields for a missing property or an index out of range.
Undefined == "undefined"
\* What request.qs() yields for a parameter the query string does not carry.
Absent == "absent"

\* ------------------------------------------------------- resolution policy
\* getResolution with the rows of 7d and 30d exchanged.
getResolution_SwappedRows(timeRange) ==
    CASE timeRange = "1h" -> "1min"
      [] timeRange = "6h" -> "5min"
      [] timeRange = "24h" -> "15min"
      [] timeRange = "7d" -> "6h"
      [] timeRange = "30d" -> "1h"
      [] timeRange = "90d" -> "1d"
      [] OTHER -> "1h"

\* getResolution with the default taken from the 24h row.
getResolution_Default15min(timeRange) ==
    CASE timeRange = "1h" -> "1min"
      [] timeRange = "6h" -> "5min"
      [] timeRange = "24h" -> "15min"
      [] timeRange = "7d" -> "1h"
      [] timeRange = "30d" -> "6h"
      [] timeRange = "90d" -> "1d"
      [] OTHER -> "15min"

getResolution(timeRange) ==
    CASE timeRange = "1h" -> "1min"
      [] timeRange = "6h" -> "5min"
      [] timeRange = "24h" -> "15min"
      [] timeRange = "7d" -> "1h"
      [] timeRange = "30d" -> "6h"
      [] timeRange = "90d" -> "1d"
      [] OTHER -> "1h"

getAggregationLevel(timeRange) ==
    CASE timeRange \in {"1h", "6h", "24h"} -> "raw-metrics"
      [] timeRange \in {"7d", "30d"} -> "hourly-aggregated"
      [] timeRange = "90d" -> "daily-aggregated"
      [] OTHER -> "hourly-aggregated"

\* getDataPointCount with the default taken from the 7d row.
getDataPointCount_Default168(timeRange) ==
    CASE timeRange = "1h" -> 60
      [] timeRange = "6h" -> 72
      [] timeRange = "24h" -> 96
      [] timeRange = "7d" -> 168
      [] timeRange = "30d" -> 120
      [] timeRange = "90d" -> 90
      [] OTHER -> 168

getDataPointCount(timeRange) ==
    CASE timeRange = "1h" -> 60
      [] timeRange = "6h" -> 72
      [] timeRange = "24h" -> 96
      [] timeRange = "7d" -> 168
      [] timeRange = "30d" -> 120
      [] timeRange = "90d" -> 90
      [] OTHER -> 96

\* getIntervalMs with the interval of an hour for 6h as well.
getIntervalMs_SixHoursAsOne(resolution) ==
    CASE resolution = "1min" -> 60 * 1000
      [] resolution = "5min" -> 5 * 60 * 1000
      [] resolution = "15min" -> 15 * 60 * 1000
      [] resolution = "1d" -> 24 * 60 * 60 * 1000
      [] OTHER -> 60 * 60 * 1000

getIntervalMs(resolution) ==
    CASE resolution = "1min" -> 60 * 1000
      [] resolution = "5min" -> 5 * 60 * 1000
      [] resolution = "15min" -> 15 * 60 * 1000
      [] resolution = "1h" -> 60 * 60 * 1000
      [] resolution = "6h" -> 6 * 60 * 60 * 1000
      [] resolution = "1d" -> 24 * 60 * 60 * 1000
      [] OTHER -> 60 * 60 * 1000

\* ------------------------------------------- IEEE-754 double arithmetic
RECURSIVE Pow2(_)
Pow2(n) == IF n = 0 THEN 1 ELSE 2 * Pow2(n - 1)

\* (a * 2^s) mod m without leaving small integers.
RECURSIVE MulPow2Mod(_, _, _)
MulPow2Mod(a, s, m) == IF s = 0 THEN a % m ELSE MulPow2Mod((2 * a) % m, s - 1, m)

\* The largest e with 2^e * b <= a, for a >= b > 0.
RECURSIVE FloorLog2(_, _)
FloorLog2(a, b) == IF 2 * b > a THEN 0 ELSE 1 + FloorLog2(a, 2 * b)

\* Math.floor(i * step) with step = currentPoints / targetPoints, both
\* operations rounded to double precision (53-bit significand, ties to even),
\* for currentPoints > targetPoints.  The quotient and the product are exact
\* reals up to a relative error of 2^-53, so the floor differs from the exact
\* floor(i*N/T) only where i*N/T is an integer K and the rounded product falls
\* below K: step was rounded down by rho/T units in the last place, and
\* i times that error exceeds half the spacing of the doubles below K.
DoubleFloorMul(i, currentPoints, targetPoints) ==
    LET exact == (i * currentPoints) \div targetPoints
    IN  IF i = 0 \/ (i * currentPoints) % targetPoints # 0
        THEN exact
        ELSE LET e == FloorLog2(currentPoints, targetPoints)
                 rho == MulPow2Mod(currentPoints, 52 - e, targetPoints)
                 odd == MulPow2Mod(currentPoints, 52 - e, 2 * targetPoints) \div targetPoints
                 roundedDown == rho # 0 /\ (2 * rho < targetPoints
                                            \/ (2 * rho = targetPoints /\ odd = 0))
                 eK == FloorLog2(exact, 1)
                 below == IF exact = Pow2(eK) THEN 2 ELSE 1
             IN  IF roundedDown /\ i * rho * Pow2(e + below) > targetPoints * Pow2(eK)
                 THEN exact - 1
                 ELSE exact

\* --------------------------------------------------------------- decimation
\* sampledIndices with a whole-number stride: step = Math.ceil(currentPoints / targetPoints).
sampledIndices_CeilStride(currentPoints, targetPoints) ==
    LET step == (currentPoints + targetPoints - 1) \div targetPoints
    IN  SelectSeq([i \in 1..targetPoints |-> (i - 1) * step],
                  LAMBDA index : index < currentPoints)

\* sampledIndices with the ratio inverted: step = targetPoints / currentPoints.
sampledIndices_InvertedStep(currentPoints, targetPoints) ==
    SelectSeq([i \in 1..targetPoints |-> ((i - 1) * targetPoints) \div currentPoints],
              LAMBDA index : index < currentPoints)

\* sampledIndices spread from the first point to the last:
\* step = (currentPoints - 1) / (targetPoints - 1).
sampledIndices_EndAnchored(currentPoints, targetPoints) ==
    SelectSeq([i \in 1..targetPoints |->
                  IF targetPoints = 1 THEN 0
                  ELSE ((i - 1) * (currentPoints - 1)) \div (targetPoints - 1)],
              LAMBDA index : index < currentPoints)

\* The 0-based indices pushed by the sampling loop.
sampledIndices(currentPoints, targetPoints) ==
    SelectSeq([i \in 1..targetPoints |-> DoubleFloorMul(i - 1, currentPoints, targetPoints)],
              LAMBDA index : index < currentPoints)

\* sampledIndices.map(i => arr[i])
Gather(arr, indices) ==
    [k \in 1..Len(indices) |->
        IF indices[k] + 1 \in DOMAIN arr THEN arr[indices[k] + 1] ELSE Undefined]

\* applyOptimalSampling that halves an over-budget series instead of sampling
\* it down to the target.
applyOptimalSampling_Halve(data, targetResolution, timeRange) ==
    LET currentPoints == Len(data.timestamps)
        indices == [k \in 1..((currentPoints + 1) \div 2) |-> 2 * (k - 1)]
    IN  IF currentPoints <= getDataPointCount(timeRange)
        THEN data
        ELSE [timestamps |-> Gather(data.timestamps, indices),
              iops |-> [read |-> Gather(data.iops.read, indices),
                        write |-> Gather(data.iops.write, indices)],
              throughput |-> [read |-> Gather(data.throughput.read, indices),
                              write |-> Gather(data.throughput.write, indices)]]

applyOptimalSampling(data, targetResolution, timeRange) ==
    LET targetPoints == getDataPointCount(timeRange)
        currentPoints == Len(data.timestamps)
    IN  IF currentPoints <= targetPoints
        THEN data
        ELSE LET indices == sampledIndices(currentPoints, targetPoints)
             IN  [timestamps |-> Gather(data.timestamps, indices),
                  iops |-> [read |-> Gather(data.iops.read, indices),
                            write |-> Gather(data.iops.write, indices)],
                  throughput |-> [read |-> Gather(data.throughput.read, indices),
                                  write |-> Gather(data.throughput.write, indices)]]

\* Legacy sampling of an array of points.
sampleDataForResolution(data, targetResolution, timeRange) ==
    LET targetPoints == getDataPointCount(timeRange)
    IN  IF Len(data) <= targetPoints
        THEN data
        ELSE Gather(data, sampledIndices(Len(data), targetPoints))

\* ---------------------------------------------------------- series inputs
\* One stored point: the four channels are distinct functions of the instant,
\* so that every value names the sample it was taken from.
PointAt(ts) ==
    [timestamp |-> ts,
     iops |-> [read |-> 4 * ts, write |-> 4 * ts + 1],
     throughput |-> [read |-> 4 * ts + 2, write |-> 4 * ts + 3]]

\* The columnar form the consolidated files hold (data: {timestamps, iops, throughput}).
Columns(points) ==
    [timestamps |-> [k \in 1..Len(points) |-> points[k].timestamp],
     iops |-> [read |-> [k \in 1..Len(points) |-> points[k].iops.read],
               write |-> [k \in 1..Len(points) |-> points[k].iops.write]],
     throughput |-> [read |-> [k \in 1..Len(points) |-> points[k].throughput.read],
                     write |-> [k \in 1..Len(points) |-> points[k].throughput.write]]]

EmptyData == Columns(<<>>)

\* A chronological series of n points, `gap` minutes apart.
RegularPoints(n, first, gap) == [k \in 1..n |-> PointAt(first + (k - 1) * gap)]

\* ------------------------------------------------------- calendar and clock
MinutesPerHour == 60
MinutesPerDay == 1440

\* The script goes back 90 days (setDate(today.getDate() - 90)); the model
\* goes back HistoryDays.
ScriptHistoryDays == 90
HistoryDays == 1

\* The local time zone of the script's host: its offset in minutes east of
\* UTC, and, for a zone with summer time, the instant from which its clocks are
\* an hour ahead.
FixedZone(offset) == [offset |-> offset, summerTime |-> FALSE, summerFrom |-> 0]
Utc == FixedZone(0)
\* A zone on UTC in winter (Europe/London) whose summer time began at 01:00 UTC
\* of day 9, the day before the runs of the model.
SummerTimeZone ==
    [offset |-> 0, summerTime |-> TRUE, summerFrom |-> 9 * MinutesPerDay + MinutesPerHour]
TimeZones == {Utc, FixedZone(480), SummerTimeZone}

\* The offset of local time at an instant.
OffsetAt(instant, tz) ==
    IF tz.summerTime /\ instant >= tz.summerFrom
    THEN tz.offset + MinutesPerHour
    ELSE tz.offset

\* new Date(y, m, d): the instant of local midnight of a local calendar day.
LocalMidnight(day, tz) ==
    LET standard == day * MinutesPerDay - tz.offset
    IN  IF tz.summerTime /\ standard - MinutesPerHour >= tz.summerFrom
        THEN standard - MinutesPerHour
        ELSE standard

\* The calendar day (days since the epoch) of an instant, in UTC and local time.
UtcDay(instant) == instant \div MinutesPerDay
LocalDay(instant, tz) == (instant + OffsetAt(instant, tz)) \div MinutesPerDay
\* now.getHours() * 60 + now.getMinutes()
LocalMinuteOfDay(instant, tz) == (instant + OffsetAt(instant, tz)) % MinutesPerDay

\* new Date(y, m, d) is local midnight; toISOString().split('T')[0] is the UTC
\* date of that instant.
dateRange(now, tz, days) ==
    LET today == LocalDay(now, tz)
        startDate == today - days
    IN  [k \in 1..(today - startDate + 1) |->
            UtcDay(LocalMidnight(startDate + k - 1, tz))]

generateDateRange(now, tz) == dateRange(now, tz, HistoryDays)

\* ------------------------------------------------------------ raw samples
\* RANGES of the script, as [min, max].
RANGES ==
    [iops |-> [read |-> <<5000, 70000>>, write |-> <<100, 2000>>],
     throughput |-> [read |-> <<10, 200>>, write |-> <<100, 2000>>]]

\* Sources of randomness of one run: `seed` stands for the stream of
\* Math.random(), `tieUp` for the direction in which toFixed(1) settles the
\* averages that lie halfway between two tenths (the binary sum decides it).
RandomSources == {[seed |-> 7, tieUp |-> TRUE], [seed |-> 11, tieUp |-> FALSE]}

\* randomValue(min, max) in tenths: one draw of the stream, with the activity
\* factor of the sample taken as 1.
randomValue(range, rnd, draw) ==
    range[1] * 10 + ((draw * rnd.seed) % ((range[2] - range[1]) * 10 + 1))

generateRawMetrics(dates, rnd) ==
    [k \in 1..(Len(dates) * MinutesPerDay) |->
        LET date == dates[((k - 1) \div MinutesPerDay) + 1]
            minute == (k - 1) % MinutesPerDay
            timestamp == date * MinutesPerDay + minute
        IN  [timestamp |-> timestamp,
             iops |-> [read |-> randomValue(RANGES.iops.read, rnd, 4 * k),
                       write |-> randomValue(RANGES.iops.write, rnd, 4 * k + 1)],
             throughput |-> [read |-> randomValue(RANGES.throughput.read, rnd, 4 * k + 2),
                             write |-> randomValue(RANGES.throughput.write, rnd, 4 * k + 3)]]]

\* ------------------------------------------------------------- aggregation
\* The Map of the grouping loops, as the sequence of its entries in insertion
\* order; `bucket` is the number of minutes the key stands for (substring(0, 13)
\* is the hour, substring(0, 10) the day).
MergeGroups(left, right) ==
    LET leftKeys == {left[j].key : j \in 1..Len(left)}
        More(key) == LET r == CHOOSE r \in 1..Len(right) : right[r].key = key
                     IN  right[r].points
    IN  [j \in 1..Len(left) |->
            [key |-> left[j].key,
             points |-> IF \E r \in 1..Len(right) : right[r].key = left[j].key
                        THEN left[j].points \o More(left[j].key)
                        ELSE left[j].points]]
        \o SelectSeq(right, LAMBDA g : g.key \notin leftKeys)

RECURSIVE GroupRange(_, _, _, _)
GroupRange(points, lo, hi, bucket) ==
    IF lo > hi THEN <<>>
    ELSE IF lo = hi
    THEN <<[key |-> points[lo].timestamp \div bucket, points |-> <<points[lo]>>]>>
    ELSE LET mid == (lo + hi) \div 2
         IN  MergeGroups(GroupRange(points, lo, mid, bucket),
                         GroupRange(points, mid + 1, hi, bucket))

GroupBy(points, bucket) == GroupRange(points, 1, Len(points), bucket)

\* points.reduce((sum, p) => sum + ..., 0), the sum of values[1..n].
RECURSIVE SumRange(_, _, _)
SumRange(values, lo, hi) ==
    IF lo > hi THEN 0
    ELSE IF lo = hi THEN values[lo]
    ELSE LET mid == (lo + hi) \div 2
         IN  SumRange(values, lo, mid) + SumRange(values, mid + 1, hi)

Sum(values, n) == SumRange(values, 1, n)

\* parseFloat((sum / count).toFixed(1)) on tenths.
toFixed1(sum, count, tieUp) ==
    LET q == sum \div count
        r == sum % count
    IN  IF 2 * r > count \/ (2 * r = count /\ tieUp) THEN q + 1 ELSE q

\* avgPoint of both aggregation loops.
avgPoint(timestamp, points, tieUp) ==
    LET n == Len(points)
        Avg(Channel(_)) == toFixed1(Sum([k \in 1..n |-> Channel(points[k])], n), n, tieUp)
    IN  [timestamp |-> timestamp,
         iops |-> [read |-> Avg(LAMBDA p : p.iops.read),
                   write |-> Avg(LAMBDA p : p.iops.write)],
         throughput |-> [read |-> Avg(LAMBDA p : p.throughput.read),
                         write |-> Avg(LAMBDA p : p.throughput.write)]]

\* Array.prototype.sort by timestamp (stable).
sortByTimestamp(points) ==
    LET n == Len(points)
        Rank(i) == Cardinality({j \in 1..n :
                        \/ points[j].timestamp < points[i].timestamp
                        \/ (points[j].timestamp = points[i].timestamp /\ j < i)}) + 1
    IN  [r \in 1..n |-> points[CHOOSE i \in 1..n : Rank(i) = r]]

\* deriveHourlyAggregated with the key of the day, substring(0, 10), in place
\* of the key of the hour.
deriveHourlyAggregated_DayKey(rawData, tieUp) ==
    LET hourlyMap == GroupBy(rawData, MinutesPerDay)
    IN  sortByTimestamp(
            [g \in 1..Len(hourlyMap) |->
                avgPoint(hourlyMap[g].key * MinutesPerDay, hourlyMap[g].points, tieUp)])

deriveHourlyAggregated(rawData, tieUp) ==
    LET hourlyMap == GroupBy(rawData, MinutesPerHour)
    IN  sortByTimestamp(
            [g \in 1..Len(hourlyMap) |->
                avgPoint(hourlyMap[g].key * MinutesPerHour, hourlyMap[g].points, tieUp)])

\* One pass of the daily loop: the point of one day, stamped with the local
\* hour and minute the clock shows in that pass.
dailyAvgPoint(group, now, tz, tieUp) ==
    avgPoint(group.key * MinutesPerDay + LocalMinuteOfDay(now, tz), group.points, tieUp)

\* deriveDailyAggregated with the key of the hour, substring(0, 13), in place
\* of the key of the day.
deriveDailyAggregated_HourKey(hourlyData, now, zone, tieUp) ==
    LET dailyMap == GroupBy(hourlyData, MinutesPerHour)
    IN  sortByTimestamp(
            [g \in 1..Len(dailyMap) |->
                avgPoint(dailyMap[g].key * MinutesPerHour, dailyMap[g].points, tieUp)])

\* deriveDailyAggregated when the clock shows `now` in every pass of its loop.
deriveDailyAggregated(hourlyData, now, zone, tieUp) ==
    LET dailyMap == GroupBy(hourlyData, MinutesPerDay)
    IN  sortByTimestamp(
            [g \in 1..Len(dailyMap) |-> dailyAvgPoint(dailyMap[g], now, zone, tieUp)])

\* ------------------------------------------------------ consolidated files
FileNames == {"raw-metrics-1h.json", "raw-metrics-6h.json", "raw-metrics-24h.json",
              "hourly-aggregated-7d.json", "hourly-aggregated-30d.json",
              "daily-aggregated-90d.json"}

\* The six writeFileSync calls in the order of the script.
WriteOrder == <<"raw-metrics-1h.json", "raw-metrics-6h.json", "raw-metrics-24h.json",
                "hourly-aggregated-7d.json", "hourly-aggregated-30d.json",
                "daily-aggregated-90d.json">>

\* The filter with both ends of the window left out.
filterWindow_Exclusive(points, from, today) ==
    SelectSeq(points, LAMBDA p : p.timestamp > from /\ p.timestamp < today)

\* points.filter(p => new Date(p.timestamp) >= from && new Date(p.timestamp) <= today)
filterWindow(points, from, today) ==
    SelectSeq(points, LAMBDA p : p.timestamp >= from /\ p.timestamp <= today)

\* consolidatedFile with one column of the 6h file mapped from the 24h selection.
consolidatedFile_MixedColumn(fileName, rawData, hourlyData, dailyData, clusterId, today) ==
    LET Doc(timeRange, resolution, points) ==
            [cluster_id |-> clusterId, time_range |-> timeRange,
             resolution |-> resolution, data |-> Columns(points)]
        raw6h == filterWindow(rawData, today - 6 * 60, today)
        raw24h == filterWindow(rawData, today - 24 * 60, today)
    IN  CASE fileName = "raw-metrics-1h.json" ->
                Doc("1h", "1min", filterWindow(rawData, today - 60, today))
          [] fileName = "raw-metrics-6h.json" ->
                [Doc("6h", "1min", raw6h) EXCEPT
                    !.data.throughput.write = Columns(raw24h).throughput.write]
          [] fileName = "raw-metrics-24h.json" -> Doc("24h", "1min", raw24h)
          [] fileName = "hourly-aggregated-7d.json" ->
                Doc("7d", "1h", filterWindow(hourlyData, today - 7 * 24 * 60, today))
          [] fileName = "hourly-aggregated-30d.json" ->
                Doc("30d", "1h", filterWindow(hourlyData, today - 30 * 24 * 60, today))
          [] fileName = "daily-aggregated-90d.json" ->
                Doc("90d", "1d", dailyData)

\* consolidatedFile with the window of the 1h file closed a minute after `today`.
consolidatedFile_LateHourWindow(fileName, rawData, hourlyData, dailyData, clusterId, today) ==
    LET Doc(timeRange, resolution, points) ==
            [cluster_id |-> clusterId, time_range |-> timeRange,
             resolution |-> resolution, data |-> Columns(points)]
    IN  CASE fileName = "raw-metrics-1h.json" ->
                Doc("1h", "1min", filterWindow(rawData, today - 60, today + 1))
          [] fileName = "raw-metrics-6h.json" ->
                Doc("6h", "1min", filterWindow(rawData, today - 6 * 60, today))
          [] fileName = "raw-metrics-24h.json" ->
                Doc("24h", "1min", filterWindow(rawData, today - 24 * 60, today))
          [] fileName = "hourly-aggregated-7d.json" ->
                Doc("7d", "1h", filterWindow(hourlyData, today - 7 * 24 * 60, today))
          [] fileName = "hourly-aggregated-30d.json" ->
                Doc("30d", "1h", filterWindow(hourlyData, today - 30 * 24 * 60, today))
          [] fileName = "daily-aggregated-90d.json" ->
                Doc("90d", "1d", dailyData)

\* The JSON document written under `fileName`.
consolidatedFile(fileName, rawData, hourlyData, dailyData, clusterId, today) ==
    LET Doc(timeRange, resolution, points) ==
            [cluster_id |-> clusterId, time_range |-> timeRange,
             resolution |-> resolution, data |-> Columns(points)]
    IN  CASE fileName = "raw-metrics-1h.json" ->
                Doc("1h", "1min", filterWindow(rawData, today - 60, today))
          [] fileName = "raw-metrics-6h.json" ->
                Doc("6h", "1min", filterWindow(rawData, today - 6 * 60, today))
          [] fileName = "raw-metrics-24h.json" ->
                Doc("24h", "1min", filterWindow(rawData, today - 24 * 60, today))
          [] fileName = "hourly-aggregated-7d.json" ->
                Doc("7d", "1h", filterWindow(hourlyData, today - 7 * 24 * 60, today))
          [] fileName = "hourly-aggregated-30d.json" ->
                Doc("30d", "1h", filterWindow(hourlyData, today - 30 * 24 * 60, today))
          [] fileName = "daily-aggregated-90d.json" ->
                Doc("90d", "1d", dailyData)

\* --------------------------------------------------------- request handler
\* A directory of the data folder: whether it exists, and its files by name.
NoDirectory == [present |-> FALSE, entries |-> <<>>]
EmptyDirectory == [present |-> TRUE, entries |-> <<>>]

\* JavaScript truthiness of a query-string value.
Truthy(value) == value \notin {Absent, ""}

\* fileName of readMetricsFromFiles.
metricsFileName(timeRange) ==
    CASE timeRange = "1h" -> "raw-metrics-1h.json"
      [] timeRange = "6h" -> "raw-metrics-6h.json"
      [] timeRange = "24h" -> "raw-metrics-24h.json"
      [] timeRange = "7d" -> "hourly-aggregated-7d.json"
      [] timeRange = "30d" -> "hourly-aggregated-30d.json"
      [] timeRange = "90d" -> "daily-aggregated-90d.json"
      [] OTHER -> "raw-metrics-24h.json"

\* path.join(process.cwd(), 'data', clusterId, fileName)
metricsFilePath(clusterId, timeRange) == <<"data", clusterId, metricsFileName(timeRange)>>

\* readMetricsFromFiles that answers a missing file with empty data instead
\* of throwing.
readMetricsFromFiles_EmptyOnMissing(clusterId, timeRange, fs) ==
    LET fileName == metricsFileName(timeRange)
    IN  IF /\ clusterId \in DOMAIN fs
           /\ fs[clusterId].present
           /\ fileName \in DOMAIN fs[clusterId].entries
        THEN [threw |-> FALSE, data |-> fs[clusterId].entries[fileName].data]
        ELSE [threw |-> FALSE, data |-> EmptyData]

\* fs.readFile + JSON.parse: the `data` member of the file, or the thrown Error.
readMetricsFromFiles(clusterId, timeRange, fs) ==
    LET fileName == metricsFileName(timeRange)
    IN  IF /\ clusterId \in DOMAIN fs
           /\ fs[clusterId].present
           /\ fileName \in DOMAIN fs[clusterId].entries
        THEN [threw |-> FALSE, data |-> fs[clusterId].entries[fileName].data]
        ELSE [threw |-> TRUE, data |-> EmptyData]

\* qsTimeRange with the default '1h'.
qsTimeRange_Default1h(query) == IF Truthy(query.timeRange) THEN query.timeRange ELSE "1h"

\* (request.qs().timeRange as TimeRange) || '24h'
qsTimeRange(query) == IF Truthy(query.timeRange) THEN query.timeRange ELSE "24h"

\* data.timestamps[i] for a 0-based i.
At(arr, i) == IF i + 1 \in DOMAIN arr THEN arr[i + 1] ELSE Undefined

\* actualResolution that leaves the override out: the label is always the
\* resolution of the policy.
actualResolution_IgnoreOverride(query, timeRange) == getResolution(timeRange)

\* resolution || this.getResolution(timeRange)
actualResolution(query, timeRange) ==
    IF Truthy(query.resolution) THEN query.resolution ELSE getResolution(timeRange)

\* The MetricsResponse built by index().
metricsResult(clusterId, timeRange, resolution, data) ==
    [clusterId |-> clusterId,
     timeRange |-> timeRange,
     resolution |-> resolution,
     data |-> data,
     metadata |-> [totalPoints |-> Len(data.timestamps),
                   startTime |-> At(data.timestamps, 0),
                   endTime |-> At(data.timestamps, Len(data.timestamps) - 1),
                   aggregationMethod |-> "avg"]]

\* index with the metadata computed from the data as read, before the sampling.
index_MetadataBeforeSampling(query, fs) ==
    LET clusterId == query.clusterId
        timeRange == qsTimeRange(query)
    IN  IF ~Truthy(clusterId)
        THEN [status |-> 400, body |-> [error |-> "clusterId is required"], reads |-> <<>>]
        ELSE LET rawData == readMetricsFromFiles(clusterId, timeRange, fs)
                 resolution == actualResolution(query, timeRange)
                 data == applyOptimalSampling(rawData.data, getResolution(timeRange), timeRange)
             IN  IF rawData.threw
                 THEN [status |-> 500, body |-> [error |-> "Failed to load metrics data"],
                       reads |-> <<metricsFilePath(clusterId, timeRange)>>]
                 ELSE [status |-> 200,
                       body |-> [metricsResult(clusterId, timeRange, resolution, data)
                                    EXCEPT !.metadata =
                                        metricsResult(clusterId, timeRange, resolution,
                                                      rawData.data).metadata],
                       reads |-> <<metricsFilePath(clusterId, timeRange)>>]

\* index with the dataset read before the validation of clusterId.
index_ValidateAfterRead(query, fs) ==
    LET clusterId == query.clusterId
        timeRange == qsTimeRange(query)
        rawData == readMetricsFromFiles(clusterId, timeRange, fs)
        data == applyOptimalSampling(rawData.data, getResolution(timeRange), timeRange)
        reads == <<metricsFilePath(clusterId, timeRange)>>
    IN  IF ~Truthy(clusterId)
        THEN [status |-> 400, body |-> [error |-> "clusterId is required"], reads |-> reads]
        ELSE IF rawData.threw
        THEN [status |-> 500, body |-> [error |-> "Failed to load metrics data"],
              reads |-> reads]
        ELSE [status |-> 200,
              body |-> metricsResult(clusterId, timeRange,
                                     actualResolution(query, timeRange), data),
              reads |-> reads]

\* index with the message of the Error readMetricsFromFiles throws, and its
\* cluster and time range, passed on in the body of the 500.
index_ErrorWithContext(query, fs) ==
    LET clusterId == query.clusterId
        timeRange == qsTimeRange(query)
    IN  IF ~Truthy(clusterId)
        THEN [status |-> 400, body |-> [error |-> "clusterId is required"], reads |-> <<>>]
        ELSE LET rawData == readMetricsFromFiles(clusterId, timeRange, fs)
                 targetResolution == getResolution(timeRange)
                 data == applyOptimalSampling(rawData.data, targetResolution, timeRange)
             IN  IF rawData.threw
                 THEN [status |-> 500,
                       body |-> [error |-> "Failed to load metrics data",
                                 clusterId |-> clusterId, timeRange |-> timeRange],
                       reads |-> <<metricsFilePath(clusterId, timeRange)>>]
                 ELSE [status |-> 200,
                       body |-> metricsResult(clusterId, timeRange,
                                              actualResolution(query, timeRange), data),
                       reads |-> <<metricsFilePath(clusterId, timeRange)>>]

\* index(): the response, and the files readFile was called on while handling.
index(query, fs) ==
    LET clusterId == query.clusterId
        timeRange == qsTimeRange(query)
    IN  IF ~Truthy(clusterId)
        THEN [status |-> 400, body |-> [error |-> "clusterId is required"], reads |-> <<>>]
        ELSE LET rawData == readMetricsFromFiles(clusterId, timeRange, fs)
                 targetResolution == getResolution(timeRange)
                 data == applyOptimalSampling(rawData.data, targetResolution, timeRange)
             IN  IF rawData.threw
                 THEN [status |-> 500, body |-> [error |-> "Failed to load metrics data"],
                       reads |-> <<metricsFilePath(clusterId, timeRange)>>]
                 ELSE [status |-> 200,
                       body |-> metricsResult(clusterId, timeRange,
                                              actualResolution(query, timeRange), data),
                       reads |-> <<metricsFilePath(clusterId, timeRange)>>]

\* ------------------------------------------------------------------- state
VARIABLES
    \* the sampling stage on its own: index() from the dataset read to the sampled data
    sPc,                \* "off", "input", "sampled", "resampled", "legacy"
    sData,              \* the data handed to the stage (MetricsResponse['data'])
    sTimeRange,         \* the time range it is sampled for
    sTargetResolution,  \* getResolution(timeRange) of index()
    sTargetPoints,      \* targetPoints of applyOptimalSampling
    sIndices,           \* sampledIndices of applyOptimalSampling (empty when not sampled)
    sResult,            \* the data the stage returns
    sAgain,             \* the stage applied to its own result
    sRows,              \* the result of the legacy row sampling
    \* the environment
    clock,              \* the wall clock, in minutes
    tz,                 \* the time zone of the script's host
    ticks,              \* how often the clock advanced
    \* the data folder
    files,              \* cluster id -> directory
    \* the regeneration script (generateClusterData of one cluster)
    gPc,                \* "idle", "daily", "rm", "mkdir", "write", "done"
    gCluster,           \* clusterId
    gDates,             \* `dates` of generateDateRange
    gRnd,               \* the randomness of this run
    hourlyData,
    dailyMap,           \* the groups of the daily loop
    dailyData,
    gToday,             \* `today` of createConsolidatedFiles
    gNext,              \* the index in WriteOrder of the next file to write
    \* the server: the request being answered
    req,
    resp,
    ioReads,            \* the paths readFile was called on for it
    \* the aggregators on their own
    aPc,                \* "off", "input", "hourly", "daily"
    aRaw,               \* the raw series handed to deriveHourlyAggregated
    \* the snapshot policy controller
    policies,           \* data/policies: uuid -> the policy stored in <uuid>.json
    pNow,               \* the clock new Date() reads, in milliseconds
    pCall               \* the last call handled: the request and its response

samplingVars == <<sPc, sData, sTimeRange, sTargetResolution, sTargetPoints, sIndices,
                  sResult, sAgain, sRows>>
envVars == <<clock, tz, ticks>>
scriptVars == <<gPc, gCluster, gDates, gRnd, hourlyData, dailyMap, dailyData, gToday,
                gNext>>

\* rawData of the run: the samples generated from its dates and its randomness.
rawData == generateRawMetrics(gDates, gRnd)
serverVars == <<req, resp, ioReads>>
aggVars == <<aPc, aRaw>>
policyVars == <<policies, pNow, pCall>>
vars == <<samplingVars, envVars, files, scriptVars, serverVars, aggVars, policyVars>>

SeriesGaps == {1, 15, MinutesPerDay}

\* -------------------------------------------------------- sampling stage
SamplingOff ==
    /\ sPc = "off"
    /\ sData = EmptyData
    /\ sTimeRange = "24h"
    /\ sTargetResolution = Undefined
    /\ sTargetPoints = 0
    /\ sIndices = <<>>
    /\ sResult = EmptyData
    /\ sAgain = EmptyData
    /\ sRows = <<>>

\* index(): targetResolution = getResolution(timeRange);
\*          data = applyOptimalSampling(rawData, targetResolution, timeRange)
Sample ==
    /\ sPc = "input"
    /\ sPc' = "sampled"
    /\ sTargetResolution' = getResolution(sTimeRange)
    /\ sTargetPoints' = getDataPointCount(sTimeRange)
    /\ sIndices' = IF Len(sData.timestamps) <= getDataPointCount(sTimeRange)
                   THEN <<>>
                   ELSE sampledIndices(Len(sData.timestamps), getDataPointCount(sTimeRange))
    /\ sResult' = applyOptimalSampling(sData, getResolution(sTimeRange), sTimeRange)
    /\ UNCHANGED <<sData, sTimeRange, sAgain, sRows>>
    /\ UNCHANGED <<envVars, files, scriptVars, serverVars>>
    /\ UNCHANGED <<aggVars, policyVars>>

\* The stage applied to the data it returned, for the same time range.
Resample ==
    /\ sPc = "sampled"
    /\ sPc' = "resampled"
    /\ sAgain' = applyOptimalSampling(sResult, sTargetResolution, sTimeRange)
    /\ UNCHANGED <<sData, sTimeRange, sTargetResolution, sTargetPoints, sIndices,
                   sResult, sRows>>
    /\ UNCHANGED <<envVars, files, scriptVars, serverVars>>
    /\ UNCHANGED <<aggVars, policyVars>>

\* The legacy method on the same series held as an array of points.
RowAt(data, k) ==
    [timestamp |-> data.timestamps[k],
     iops |-> [read |-> data.iops.read[k], write |-> data.iops.write[k]],
     throughput |-> [read |-> data.throughput.read[k], write |-> data.throughput.write[k]]]

Rows(data) == [k \in 1..Len(data.timestamps) |-> RowAt(data, k)]

LegacySample ==
    /\ sPc = "input"
    /\ sPc' = "legacy"
    /\ sTargetPoints' = getDataPointCount(sTimeRange)
    /\ sRows' = sampleDataForResolution(Rows(sData), getResolution(sTimeRange), sTimeRange)
    /\ UNCHANGED <<sData, sTimeRange, sTargetResolution, sIndices, sResult, sAgain>>
    /\ UNCHANGED <<envVars, files, scriptVars, serverVars>>
    /\ UNCHANGED <<aggVars, policyVars>>

SamplingNext == Sample \/ Resample \/ LegacySample

\* ------------------------------------------------------------ the pipeline
\* The clock advances at most MaxTicks times in a run.
MaxTicks == 1

\* Instants at which the exploration starts: 14:30 and 00:30 UTC of day 10.
FirstInstants == {10 * MinutesPerDay + 14 * MinutesPerHour + 30, 10 * MinutesPerDay + 30}

\* Directories of the data folder; clusters.json registers RegisteredClusters.
DataDirs == {"c1", "c2"}
RegisteredClusters == {"c1"}

\* The query strings sent to GET /api/metrics.
Queries ==
    [clusterId : {"c1"},
     timeRange : {Absent} \cup TimeRanges \cup {"", "invalid"},
     resolution : {Absent}]
    \cup [clusterId : {"c1"}, timeRange : {Absent, "1h", "24h", "90d"}, resolution : {"1h"}]
    \cup [clusterId : {Absent, ""}, timeRange : {Absent, "invalid"}, resolution : {Absent, "1h"}]
    \cup [clusterId : {"c2"}, timeRange : {Absent, "7d"}, resolution : {Absent}]

NoRequest == [clusterId |-> Absent, timeRange |-> Absent, resolution |-> Absent]
NoResponse == [status |-> 0, body |-> <<>>]

ScriptIdle ==
    /\ gPc = "idle"
    /\ gCluster = ""
    /\ gDates = <<>>
    /\ gRnd = [seed |-> 0, tieUp |-> FALSE]
    /\ hourlyData = <<>>
    /\ dailyMap = <<>>
    /\ dailyData = <<>>
    /\ gToday = 0
    /\ gNext = 0

ServerIdle ==
    /\ req = NoRequest
    /\ resp = NoResponse
    /\ ioReads = <<>>

PipelineInit ==
    /\ clock \in FirstInstants
    /\ tz \in TimeZones
    /\ ticks = 0
    /\ files = [c \in DataDirs |-> NoDirectory]
    /\ ScriptIdle
    /\ ServerIdle

\* The clock advances by a minute.  Only the script reads it, so the advance
\* is taken while a read lies ahead: before a run, in the daily loop and up to
\* the read of `now` in createConsolidatedFiles.
Tick ==
    /\ ticks < MaxTicks
    /\ resp = NoResponse
    /\ \/ gPc \in {"idle", "daily", "rm", "mkdir"}
       \/ gPc = "write" /\ gNext = 1
    /\ clock' = clock + 1
    /\ ticks' = ticks + 1
    /\ UNCHANGED <<tz, files, scriptVars, serverVars, samplingVars>>
    /\ UNCHANGED <<aggVars, policyVars>>

\* generateClusterData, run once for the cluster, up to the daily loop: the date range, the raw samples,
\* the hourly series and the Map of the days.
StartGenerate(clusterId, rnd) ==
    /\ gPc = "idle"
    /\ resp = NoResponse
    /\ LET dates == generateDateRange(clock, tz)
           hourly == deriveHourlyAggregated(generateRawMetrics(dates, rnd), rnd.tieUp)
       IN  /\ gDates' = dates
           /\ hourlyData' = hourly
           /\ dailyMap' = GroupBy(hourly, MinutesPerDay)
    /\ dailyData' = <<>>
    /\ gCluster' = clusterId
    /\ gRnd' = rnd
    /\ gPc' = "daily"
    /\ UNCHANGED <<gToday, gNext, envVars, files, serverVars, samplingVars>>
    /\ UNCHANGED <<aggVars, policyVars>>

\* One pass of the loop of deriveDailyAggregated; the last pass is followed
\* by the sort.
DailyStep ==
    /\ gPc = "daily"
    /\ resp = NoResponse
    /\ LET pass == Len(dailyData) + 1
           point == dailyAvgPoint(dailyMap[pass], clock, tz, gRnd.tieUp)
       IN  IF pass < Len(dailyMap)
           THEN /\ dailyData' = Append(dailyData, point)
                /\ gPc' = "daily"
           ELSE /\ dailyData' = sortByTimestamp(Append(dailyData, point))
                /\ gPc' = "rm"
    /\ UNCHANGED <<gCluster, gDates, gRnd, hourlyData, dailyMap, gToday, gNext,
                   envVars, files, serverVars, samplingVars, policyVars>>
    /\ UNCHANGED <<aggVars, policyVars>>

\* createConsolidatedFiles without the removal of the old directory.
RemoveOld_Skip ==
    /\ gPc = "rm"
    /\ resp = NoResponse
    /\ gPc' = "mkdir"
    /\ UNCHANGED <<gCluster, gDates, gRnd, hourlyData, dailyMap, dailyData, gToday, gNext,
                   envVars, files, serverVars, samplingVars>>
    /\ UNCHANGED <<aggVars, policyVars>>

\* createConsolidatedFiles: if (fs.existsSync(baseDir)) fs.rmSync(baseDir, {recursive})
RemoveOld ==
    /\ gPc = "rm"
    /\ resp = NoResponse
    /\ files' = [files EXCEPT ![gCluster] = NoDirectory]
    /\ gPc' = "mkdir"
    /\ UNCHANGED <<gCluster, gDates, gRnd, hourlyData, dailyMap, dailyData, gToday, gNext,
                   envVars, serverVars, samplingVars>>
    /\ UNCHANGED <<aggVars, policyVars>>

\* fs.mkdirSync(baseDir, {recursive}): creates the directory, and leaves one
\* that exists as it is.
MakeDir ==
    /\ gPc = "mkdir"
    /\ resp = NoResponse
    /\ files' = [files EXCEPT ![gCluster] = IF @.present THEN @ ELSE EmptyDirectory]
    /\ gPc' = "write"
    /\ gNext' = 1
    /\ UNCHANGED <<gCluster, gDates, gRnd, hourlyData, dailyMap, dailyData, gToday,
                   envVars, serverVars, samplingVars>>
    /\ UNCHANGED <<aggVars, policyVars>>

\* One writeFileSync; the first is preceded by the read of `now`, the last
\* ends the run.
WriteFile ==
    /\ gPc = "write"
    /\ resp = NoResponse
    /\ LET today == IF gNext = 1 THEN clock ELSE gToday
           fileName == WriteOrder[gNext]
           doc == consolidatedFile(fileName, rawData, hourlyData, dailyData, gCluster, today)
       IN  /\ gToday' = today
           /\ files' = [files EXCEPT ![gCluster].entries = (fileName :> doc) @@ @]
    /\ IF gNext < Len(WriteOrder)
       THEN /\ gNext' = gNext + 1
            /\ gPc' = "write"
       ELSE /\ gNext' = 0
            /\ gPc' = "done"
    /\ UNCHANGED <<gCluster, gDates, gRnd, hourlyData, dailyMap, dailyData,
                   envVars, serverVars, samplingVars>>
    /\ UNCHANGED <<aggVars, policyVars>>

\* GET /api/metrics with the query string `query`.
Index(query) ==
    /\ resp = NoResponse
    /\ LET result == index(query, files)
       IN  /\ resp' = [status |-> result.status, body |-> result.body]
           /\ ioReads' = result.reads
    /\ req' = query
    /\ UNCHANGED <<envVars, files, scriptVars, samplingVars>>
    /\ UNCHANGED <<aggVars, policyVars>>

\* The response leaves the server.
Deliver ==
    /\ resp # NoResponse
    /\ req' = NoRequest
    /\ resp' = NoResponse
    /\ ioReads' = <<>>
    /\ UNCHANGED <<envVars, files, scriptVars, samplingVars>>
    /\ UNCHANGED <<aggVars, policyVars>>

Next ==
    \/ Tick
    \/ \E clusterId \in RegisteredClusters, rnd \in RandomSources : StartGenerate(clusterId, rnd)
    \/ DailyStep
    \/ RemoveOld
    \/ MakeDir
    \/ WriteFile
    \/ \E query \in Queries : Index(query)
    \/ Deliver

AggregationOff == aPc = "off" /\ aRaw = <<>>

\* No policy stored, no call handled.
NoBody == [f \in {} |-> ""]
NoCall == [op |-> "none", uuid |-> "", request |-> NoBody, existed |-> FALSE,
           status |-> 0, body |-> NoBody]
PolicyOff ==
    /\ policies = [u \in {} |-> NoBody]
    /\ pNow = 0
    /\ pCall = NoCall

Init == PipelineInit /\ SamplingOff /\ AggregationOff /\ PolicyOff

Spec == Init /\ [][Next]_vars

\* The sampling stage on its own: no script run, no request.
InitSampling ==
    /\ sPc = "input"
    /\ \E n \in 0..MaxSeriesLen, gap \in SeriesGaps :
          sData = Columns(RegularPoints(n, 0, gap))
    /\ sTimeRange \in TimeRanges \cup UnrecognizedRanges
    /\ sTargetResolution = Undefined
    /\ sTargetPoints = 0
    /\ sIndices = <<>>
    /\ sResult = EmptyData
    /\ sAgain = EmptyData
    /\ sRows = <<>>
    /\ clock = 0
    /\ tz = Utc
    /\ ticks = 0
    /\ files = [c \in DataDirs |-> NoDirectory]
    /\ gPc = "idle"
    /\ gCluster = ""
    /\ gDates = <<>>
    /\ gRnd = [seed |-> 0, tieUp |-> FALSE]
    /\ hourlyData = <<>>
    /\ dailyMap = <<>>
    /\ dailyData = <<>>
    /\ gToday = 0
    /\ gNext = 0
    /\ req = NoRequest
    /\ resp = NoResponse
    /\ ioReads = <<>>
    /\ aPc = "off"
    /\ aRaw = <<>>
    /\ PolicyOff

SpecSampling == InitSampling /\ [][SamplingNext]_vars

\* ------------------------------------------------- claims: resolution policy
\* The table of section 4.3: TimeRange -> (resolution, target points).
PolicyTable ==
    ("1h" :> <<"1min", 60>>) @@ ("6h" :> <<"5min", 72>>) @@ ("24h" :> <<"15min", 96>>)
    @@ ("7d" :> <<"1h", 168>>) @@ ("30d" :> <<"6h", 120>>) @@ ("90d" :> <<"1d", 90>>)

PolicyApplied == sPc \in {"sampled", "resampled"}

\* C1: for each of the six TimeRange values the policy returns exactly the
\* pair of the table: 1h -> (1min, 60), 6h -> (5min, 72), 24h -> (15min, 96),
\* 7d -> (1h, 168), 30d -> (6h, 120), 90d -> (1d, 90).
C1_PolicyReturnsTablePair ==
    (PolicyApplied /\ sTimeRange \in TimeRanges)
        => <<sTargetResolution, sTargetPoints>> = PolicyTable[sTimeRange]

C1_Witness ==
    /\ sPc = "sampled"
    /\ sTimeRange = "30d"
    /\ sTargetResolution = "6h"
    /\ sTargetPoints = 120

\* C2 as stated: for an input that is no TimeRange the policy returns the 24h
\* row, resolution 15min and 96 target points.
C2_DefaultIs24hRow ==
    (PolicyApplied /\ sTimeRange \notin TimeRanges)
        => (sTargetResolution = "15min" /\ sTargetPoints = 96)

\* C2 amended: for an input that is no TimeRange the policy never errors and
\* returns a resolution of the enumerated set, namely 1h (the row of 7d), with
\* the 96 target points of the 24h row.
C2_DefaultIs1hWith96Points ==
    (PolicyApplied /\ sTimeRange \notin TimeRanges)
        => /\ sTargetResolution \in Resolutions
           /\ sTargetResolution = PolicyTable["7d"][1]
           /\ sTargetPoints = PolicyTable["24h"][2]

C2_Witness ==
    /\ sPc = "sampled"
    /\ sTimeRange = "12h"
    /\ sTargetResolution = "1h"
    /\ sTargetPoints = 96

\* C3: for any unrecognized time range getResolution returns '1h' and
\* getDataPointCount returns 96.
C3_UnrecognizedGets1hAnd96 ==
    \A timeRange \in UnrecognizedRanges :
        (sPc # "input" /\ sTimeRange = timeRange)
            => /\ sPc \in {"sampled", "resampled"} => sTargetResolution = "1h"
               /\ sTargetPoints = 96

C3_Witness ==
    /\ sPc = "sampled"
    /\ sTimeRange = "invalid"
    /\ sTargetResolution = "1h"
    /\ sTargetPoints = 96

\* ------------------------------------------------------- claims: decimation
StrictlyIncreasing(seq) == \A k \in 1..(Len(seq) - 1) : seq[k] < seq[k + 1]

\* C4: for a series of N points and the target T of the time range: if N <= T
\* the decimation step returns the series unchanged, and if N > T it returns
\* exactly T points (the columnar step and the legacy row step alike).
C4_UnchangedOrExactlyTarget ==
    LET N == Len(sData.timestamps)
        T == sTargetPoints
    IN  /\ (sPc = "sampled" /\ N <= T) => sResult = sData
        /\ (sPc = "sampled" /\ N > T) => Len(sResult.timestamps) = T
        /\ (sPc = "legacy" /\ N <= T) => sRows = Rows(sData)
        /\ (sPc = "legacy" /\ N > T) => Len(sRows) = T

C4_Witness ==
    /\ sPc = "sampled"
    /\ sTimeRange = "7d"
    /\ Len(sData.timestamps) = 169
    /\ Len(sResult.timestamps) = 168

\* C5: whenever decimation reduces a series (N > T) the selected indices are
\* strictly increasing and all below N, and the result holds exactly the
\* stored points at those indices: a subsequence of the original that never
\* reorders and never duplicates a point.
C5_IndicesStrictlyIncreasingBelowN ==
    LET N == Len(sData.timestamps)
    IN  (sPc = "sampled" /\ N > sTargetPoints)
            => /\ sIndices # <<>>
               /\ StrictlyIncreasing(sIndices)
               /\ \A k \in 1..Len(sIndices) : sIndices[k] >= 0 /\ sIndices[k] < N
               /\ Len(sResult.timestamps) = Len(sIndices)
               /\ \A k \in 1..Len(sIndices) :
                     sResult.timestamps[k] = sData.timestamps[sIndices[k] + 1]
               /\ StrictlyIncreasing(sResult.timestamps)

\* A case where the double product falls below the exact floor(i*N/T):
\* 84 points sampled to 60 select index 62 at i = 45, not 63.
C5_Witness ==
    /\ sPc = "sampled"
    /\ sTimeRange = "1h"
    /\ Len(sData.timestamps) = 84
    /\ sIndices[46] = 62
    /\ sIndices[47] = 64

\* C6: decimation is idempotent: the step applied to its own output, for the
\* same time range, returns that output unchanged.
C6_DecimationIdempotent ==
    sPc = "resampled" => sAgain = sResult

C6_Witness ==
    /\ sPc = "resampled"
    /\ Len(sData.timestamps) = MaxSeriesLen
    /\ sTimeRange = "30d"
    /\ Len(sResult.timestamps) = 120
    /\ sAgain = sResult

\* ------------------------------------------------------ claims: the pipeline
SameLength(data) ==
    /\ Len(data.iops.read) = Len(data.timestamps)
    /\ Len(data.iops.write) = Len(data.timestamps)
    /\ Len(data.throughput.read) = Len(data.timestamps)
    /\ Len(data.throughput.write) = Len(data.timestamps)

\* The position of the stamp t in a chronological sequence of stamps, or 0.
RECURSIVE FindStamp(_, _, _, _)
FindStamp(timestamps, t, lo, hi) ==
    IF lo > hi THEN 0
    ELSE LET mid == (lo + hi) \div 2
         IN  IF timestamps[mid] = t THEN mid
             ELSE IF timestamps[mid] < t THEN FindStamp(timestamps, t, mid + 1, hi)
             ELSE FindStamp(timestamps, t, lo, mid - 1)

\* The same, trying first the position the stamp has when the sequence holds
\* one stamp a minute.
Locate(timestamps, t) ==
    LET guess == IF timestamps = <<>> THEN 0 ELSE t - timestamps[1] + 1
    IN  IF guess \in 1..Len(timestamps) /\ timestamps[guess] = t
        THEN guess
        ELSE FindStamp(timestamps, t, 1, Len(timestamps))

\* Every position of the columns of `data` holds, in all five arrays, one
\* row of the columns of `source`: the row found by its stamp or, where the
\* source has a stamp more than once, another row of it.
AlignedWith(data, source) ==
    /\ SameLength(data)
    /\ LET rows == {RowAt(source, j) : j \in 1..Len(source.timestamps)}
       IN  \A i \in 1..Len(data.timestamps) :
              LET k == Locate(source.timestamps, data.timestamps[i])
              IN  \/ k # 0 /\ RowAt(data, i) = RowAt(source, k)
                  \/ RowAt(data, i) \in rows

\* Every position of the columns of `data` holds, in all five arrays, one
\* point of the series `points` (found by its stamp or, failing that, by search).
AlignedWithPoints(data, points) ==
    /\ SameLength(data)
    /\ LET stamps == [k \in 1..Len(points) |-> points[k].timestamp]
           rows == {points[j] : j \in 1..Len(points)}
       IN  \A i \in 1..Len(data.timestamps) :
              LET k == Locate(stamps, data.timestamps[i])
              IN  \/ k # 0 /\ RowAt(data, i) = points[k]
                  \/ RowAt(data, i) \in rows

\* The series a file is taken from.
SourceSeries(fileName) ==
    CASE fileName \in {"raw-metrics-1h.json", "raw-metrics-6h.json", "raw-metrics-24h.json"}
            -> rawData
      [] fileName \in {"hourly-aggregated-7d.json", "hourly-aggregated-30d.json"}
            -> hourlyData
      [] OTHER -> dailyData

\* The place in WriteOrder of the file the last step of the script wrote, or 0.
JustWritten ==
    IF resp # NoResponse THEN 0
    ELSE IF gPc = "done" THEN Len(WriteOrder)
    ELSE IF gPc = "write" THEN gNext - 1
    ELSE 0

Answered == resp # NoResponse
Succeeded == resp.status = 200
\* The file the answered request was served from.
ServedFile == files[ioReads[1][2]].entries[ioReads[1][3]]

\* C7: every series the pipeline produces - each dataset written by the
\* regeneration, each series a request returns after decimation - has its
\* timestamps and its four channel arrays of one length, and position i of
\* all five arrays comes from one source sample.
C7_ArraysAligned ==
    /\ JustWritten # 0 =>
          LET fileName == WriteOrder[JustWritten]
          IN  AlignedWithPoints(files[gCluster].entries[fileName].data, SourceSeries(fileName))
    /\ Succeeded => AlignedWith(resp.body.data, ServedFile.data)

C7_Witness ==
    /\ Succeeded
    /\ gPc = "done"
    /\ req.timeRange = "6h"
    /\ Len(ServedFile.data.timestamps) > 72
    /\ Len(resp.body.data.iops.write) = 72
    /\ Len(resp.body.data.throughput.read) = 72

\* C8: in every successful response metadata.totalPoints is the number of
\* timestamps of the returned (post-decimation) series, metadata.startTime
\* is its first timestamp and metadata.endTime its last (for an empty
\* series both are undefined, as the first and last timestamp are).
C8_MetadataMatchesSeries ==
    Succeeded =>
        LET timestamps == resp.body.data.timestamps
            metadata == resp.body.metadata
            n == Len(timestamps)
        IN  /\ metadata.totalPoints = n
            /\ n > 0 => /\ metadata.startTime = timestamps[1]
                        /\ metadata.endTime = timestamps[n]
            /\ n = 0 => /\ metadata.startTime = Undefined
                        /\ metadata.endTime = Undefined

C8_Witness ==
    /\ Succeeded
    /\ req.timeRange = "24h"
    /\ Len(ServedFile.data.timestamps) > 96
    /\ resp.body.metadata.totalPoints = 96
    /\ resp.body.metadata.startTime = ServedFile.data.timestamps[1]
    /\ resp.body.metadata.endTime = resp.body.data.timestamps[96]
    /\ resp.body.metadata.endTime < ServedFile.data.timestamps[Len(ServedFile.data.timestamps)]

\* C9: a request with a missing or empty clusterId is rejected with HTTP 400
\* and 'clusterId is required', and no dataset read is attempted for it,
\* whatever its timeRange and resolution are.
C9_MissingClusterIdRejectedBeforeRead ==
    (Answered /\ req.clusterId \in {Absent, ""})
        => /\ resp.status = 400
           /\ resp.body = [error |-> "clusterId is required"]
           /\ ioReads = <<>>

C9_Witness ==
    /\ Answered
    /\ gPc = "done"
    /\ req = [clusterId |-> "", timeRange |-> "invalid", resolution |-> "1h"]
    /\ resp.status = 400
    /\ ioReads = <<>>

\* C10: a request that omits timeRange behaves exactly as the request with
\* timeRange = 24h: it reads the 24h dataset, decimates to the 24h target and
\* reports timeRange 24h, and has the outcome of the explicit request.
C10_OmittedTimeRangeIs24h ==
    (Answered /\ req.timeRange = Absent)
        => LET explicit == index([req EXCEPT !.timeRange = "24h"], files)
           IN  /\ resp = [status |-> explicit.status, body |-> explicit.body]
               /\ ioReads = explicit.reads
               /\ Truthy(req.clusterId)
                    => ioReads = << <<"data", req.clusterId, "raw-metrics-24h.json">> >>
               /\ Succeeded
                    => /\ resp.body.timeRange = "24h"
                       /\ Len(resp.body.data.timestamps) <= 96
                       /\ resp.body.data
                            = applyOptimalSampling(ServedFile.data, "15min", "24h")
                       /\ resp.body.resolution
                            = IF req.resolution = Absent THEN "15min" ELSE req.resolution

C10_Witness ==
    /\ Succeeded
    /\ req = [clusterId |-> "c1", timeRange |-> Absent, resolution |-> Absent]
    /\ resp.body.timeRange = "24h"
    /\ resp.body.resolution = "15min"
    /\ Len(ServedFile.data.timestamps) > 96
    /\ Len(resp.body.data.timestamps) = 96

DatasetMissing(clusterId, timeRange) ==
    ~(/\ clusterId \in DOMAIN files
      /\ files[clusterId].present
      /\ metricsFileName(timeRange) \in DOMAIN files[clusterId].entries)

\* C12: a well-formed request for an (entity, range) whose dataset does not
\* exist ends in the data-unavailable outcome (HTTP 500, 'Failed to load
\* metrics data'), distinct from the validation error; it is never answered
\* with success or an empty series, and no other dataset is read in its place.
C12_MissingDatasetIsDataUnavailable ==
    (/\ Answered
     /\ Truthy(req.clusterId)
     /\ qsTimeRange(req) \in TimeRanges
     /\ DatasetMissing(req.clusterId, qsTimeRange(req)))
        => /\ resp.status = 500
           /\ resp.body = [error |-> "Failed to load metrics data"]
           /\ resp.body # [error |-> "clusterId is required"]
           /\ ioReads = << <<"data", req.clusterId, metricsFileName(qsTimeRange(req))>> >>

C12_Witness ==
    /\ Answered
    /\ gPc = "done"
    /\ req = [clusterId |-> "c2", timeRange |-> "7d", resolution |-> Absent]
    /\ ~files["c2"].present
    /\ files["c1"].present
    /\ resp.status = 500

\* --------------------------------- regeneration over a published set, with failures
\* The directory a completed run of generateClusterData leaves, when the clock
\* stands at `now` throughout the run.
completedRun(clusterId, now, zone, rnd) ==
    LET raw == generateRawMetrics(generateDateRange(now, zone), rnd)
        hourly == deriveHourlyAggregated(raw, rnd.tieUp)
        daily == deriveDailyAggregated(hourly, now, zone, rnd.tieUp)
    IN  [present |-> TRUE,
         entries |-> [fileName \in FileNames |->
                        consolidatedFile(fileName, raw, hourly, daily, clusterId, now)]]

\* The randomness of the run that published the set the exploration starts from.
PreviousRandom == [seed |-> 13, tieUp |-> TRUE]

\* A file of an older structure of the folder ("Remove old structure and
\* create new").
OldStructureFile == "raw-metrics.json"

\* The folder of c1 as the exploration finds it: the set published an hour
\* before (the clock stands still in SpecRegen), next to a file of the old
\* structure.
PreviousSet ==
    LET run == completedRun("c1", clock - MinutesPerHour, tz, PreviousRandom)
    IN  [run EXCEPT !.entries =
            (OldStructureFile :> run.entries["raw-metrics-24h.json"]) @@ @]

InitRegen ==
    /\ clock \in FirstInstants
    /\ tz \in TimeZones
    /\ ticks = 0
    /\ files = [c \in DataDirs |-> IF c = "c1" THEN PreviousSet ELSE NoDirectory]
    /\ gPc = "idle"
    /\ gCluster = ""
    /\ gDates = <<>>
    /\ gRnd = [seed |-> 0, tieUp |-> FALSE]
    /\ hourlyData = <<>>
    /\ dailyMap = <<>>
    /\ dailyData = <<>>
    /\ gToday = 0
    /\ gNext = 0
    /\ req = NoRequest
    /\ resp = NoResponse
    /\ ioReads = <<>>
    /\ SamplingOff
    /\ AggregationOff
    /\ PolicyOff

\* A call of fs (rmSync, mkdirSync, writeFileSync) throws: nothing catches
\* it, the script ends where it stands.
Fail ==
    /\ gPc \in {"rm", "mkdir", "write"}
    /\ resp = NoResponse
    /\ gPc' = "failed"
    /\ UNCHANGED <<gCluster, gDates, gRnd, hourlyData, dailyMap, dailyData, gToday, gNext,
                   envVars, files, serverVars, samplingVars>>
    /\ UNCHANGED <<aggVars, policyVars>>

NextRegen ==
    \/ \E clusterId \in RegisteredClusters, rnd \in RandomSources : StartGenerate(clusterId, rnd)
    \/ DailyStep
    \/ RemoveOld
    \/ MakeDir
    \/ WriteFile
    \/ Fail
    \/ \E query \in Queries : Index(query)
    \/ Deliver

SpecRegen == InitRegen /\ [][NextRegen]_vars

\* The directory holds the six datasets of the run that is under way or done.
HoldsNewSet(dir) ==
    /\ dir.present
    /\ DOMAIN dir.entries = FileNames
    /\ \A fileName \in FileNames :
          dir.entries[fileName]
            = consolidatedFile(fileName, rawData, hourlyData, dailyData, gCluster, gToday)

\* C13: while a regeneration of an entity runs concurrently with requests for
\* that entity, no request observes a partially published set: a request for
\* the entity is answered from a folder that holds the complete six datasets
\* from before the regeneration or the complete six new ones, and is never
\* refused for a missing dataset.
C13_NoPartiallyPublishedSet ==
    (/\ Answered
     /\ gPc \notin {"idle", "failed"}
     /\ req.clusterId = gCluster
     /\ qsTimeRange(req) \in TimeRanges)
        => /\ Succeeded
           /\ files[gCluster] = PreviousSet \/ HoldsNewSet(files[gCluster])

\* C14: regeneration is all-or-nothing per entity: if it fails after any step
\* (the removal of the directory or any of the six writes), the datasets
\* visible to readers are exactly the six that existed before it started.
C14_FailedRunLeavesPreviousSet ==
    gPc = "failed" => files[gCluster] = PreviousSet

\* ------------------------------------------- claims: the regenerated datasets
\* The points of a series that fall into the bucket `key` of `bucket` minutes.
InBucket(points, bucket, key) ==
    SelectSeq(points, LAMBDA p : p.timestamp \div bucket = key)

\* value (in tenths) is the arithmetic mean of `values`, rounded to one decimal.
IsRoundedMean(value, values) ==
    LET n == Len(values)
        diff == Sum(values, n) - value * n
    IN  /\ n > 0
        /\ 2 * diff <= n
        /\ 2 * diff >= -n

\* Each channel of `point` is the rounded mean of that channel over `samples`.
IsAggregateOf(point, samples) ==
    LET n == Len(samples)
    IN  /\ IsRoundedMean(point.iops.read, [k \in 1..n |-> samples[k].iops.read])
        /\ IsRoundedMean(point.iops.write, [k \in 1..n |-> samples[k].iops.write])
        /\ IsRoundedMean(point.throughput.read, [k \in 1..n |-> samples[k].throughput.read])
        /\ IsRoundedMean(point.throughput.write, [k \in 1..n |-> samples[k].throughput.write])

\* Every point of `aggregated` is the rounded mean of the points of `source`
\* in its bucket of `bucket` minutes.
AggregatedFrom(aggregated, source, bucket) ==
    \A k \in 1..Len(aggregated) :
        IsAggregateOf(aggregated[k],
                      InBucket(source, bucket, aggregated[k].timestamp \div bucket))

\* A regeneration has completed and no request is in progress.
Regenerated == gPc = "done" /\ resp = NoResponse

\* The data of a dataset of the regenerated cluster.
Dataset(fileName) == files[gCluster].entries[fileName].data

ServedFresh(timeRange) ==
    /\ Succeeded
    /\ gPc = "done"
    /\ req.clusterId = gCluster
    /\ req.timeRange = timeRange

\* C16: after a fresh regeneration a 1h request returns exactly 60 points
\* labelled 1min, whose timestamps are the 60 consecutive minutes before the
\* `now` of the generation (now - 60 .. now - 1).
C16_FreshOneHourIs60RecentMinutes ==
    (ServedFresh("1h") /\ req.resolution = Absent)
        => /\ Len(resp.body.data.timestamps) = 60
           /\ resp.body.resolution = "1min"
           /\ \A i \in 1..Len(resp.body.data.timestamps) :
                 resp.body.data.timestamps[i] = gToday - MinutesPerHour + (i - 1)

\* C17, for the time ranges whose window the modelled history covers (1h, 6h,
\* 24h): after a fresh regeneration a request without override returns exactly
\* the target number of points of its range (60, 72, 96) with the resolution
\* label of the policy, for every `now` of the generation.
C17_FreshRangesReturnTargetCount ==
    \A timeRange \in {"1h", "6h", "24h"} :
        (ServedFresh(timeRange) /\ req.resolution = Absent)
            => /\ Len(resp.body.data.timestamps) = PolicyTable[timeRange][2]
               /\ resp.body.resolution = PolicyTable[timeRange][1]

\* The series handed to the sampling stage is the daily series of a run of
\* the script: one point a day for each of its dates.
DailySeriesOfRun ==
    /\ Len(sData.timestamps) = Len(dateRange(0, Utc, ScriptHistoryDays))
    /\ \A k \in 1..(Len(sData.timestamps) - 1) :
          sData.timestamps[k + 1] - sData.timestamps[k] = MinutesPerDay

\* C18: after a fresh regeneration a 90d request returns at most 90 points,
\* one for each calendar day present in the generated data.
C18_NinetyDaysOnePointPerDay ==
    (sPc = "sampled" /\ sTimeRange = "90d" /\ DailySeriesOfRun)
        => /\ Len(sResult.timestamps) <= 90
           /\ \A k \in 1..Len(sData.timestamps) :
                 \E j \in 1..Len(sResult.timestamps) :
                     sResult.timestamps[j] \div MinutesPerDay
                        = sData.timestamps[k] \div MinutesPerDay

\* ------------------------------------------------ the aggregators on their own
\* Longest raw series handed to the aggregators on their own.
MaxRawLen == 30

\* Minutes between two raw samples, and the pause after the first half of the
\* series: none, some hours, some days.
RawGaps == {1, 7, 61, 150}
RawPauses == {0, 200, 3000}
RawStarts == {0, 59, 10 * MinutesPerDay + 13 * MinutesPerHour + 29,
              10 * MinutesPerDay + 23 * MinutesPerHour + 50}

\* A chronological raw series of n samples.
RawSeries(n, first, gap, pause, rnd) ==
    [k \in 1..n |->
        [timestamp |-> first + (k - 1) * gap + (IF 2 * k > n THEN pause ELSE 0),
         iops |-> [read |-> randomValue(RANGES.iops.read, rnd, 4 * k),
                   write |-> randomValue(RANGES.iops.write, rnd, 4 * k + 1)],
         throughput |-> [read |-> randomValue(RANGES.throughput.read, rnd, 4 * k + 2),
                         write |-> randomValue(RANGES.throughput.write, rnd, 4 * k + 3)]]]

\* The first sample of each date of a run of the script (minute 0 of the loop
\* of generateRawMetrics): a raw series that has every day of the script's own.
DayStartSamples(dates, rnd) ==
    [k \in 1..Len(dates) |->
        [timestamp |-> dates[k] * MinutesPerDay,
         iops |-> [read |-> randomValue(RANGES.iops.read, rnd, 4 * k),
                   write |-> randomValue(RANGES.iops.write, rnd, 4 * k + 1)],
         throughput |-> [read |-> randomValue(RANGES.throughput.read, rnd, 4 * k + 2),
                         write |-> randomValue(RANGES.throughput.write, rnd, 4 * k + 3)]]]

InitAggregation ==
    /\ aPc = "input"
    /\ gRnd \in RandomSources
    /\ clock \in FirstInstants
    /\ tz \in TimeZones
    /\ \/ \E n \in 0..MaxRawLen, first \in RawStarts, gap \in RawGaps, pause \in RawPauses :
             aRaw = RawSeries(n, first, gap, pause, gRnd)
       \/ aRaw = DayStartSamples(dateRange(clock, tz, ScriptHistoryDays), gRnd)
    /\ ticks = 0
    /\ files = [c \in DataDirs |-> NoDirectory]
    /\ gPc = "idle"
    /\ gCluster = ""
    /\ gDates = <<>>
    /\ hourlyData = <<>>
    /\ dailyMap = <<>>
    /\ dailyData = <<>>
    /\ gToday = 0
    /\ gNext = 0
    /\ req = NoRequest
    /\ resp = NoResponse
    /\ ioReads = <<>>
    /\ SamplingOff
    /\ PolicyOff

\* hourlyData = deriveHourlyAggregated(rawData)
DeriveHourly ==
    /\ aPc = "input"
    /\ aPc' = "hourly"
    /\ hourlyData' = deriveHourlyAggregated(aRaw, gRnd.tieUp)
    /\ UNCHANGED <<aRaw, gPc, gCluster, gDates, gRnd, dailyMap, dailyData, gToday, gNext,
                   envVars, files, serverVars, samplingVars, policyVars>>

\* dailyData = deriveDailyAggregated(hourlyData)
DeriveDaily ==
    /\ aPc = "hourly"
    /\ aPc' = "daily"
    /\ dailyData' = deriveDailyAggregated(hourlyData, clock, tz, gRnd.tieUp)
    /\ UNCHANGED <<aRaw, gPc, gCluster, gDates, gRnd, hourlyData, dailyMap, gToday, gNext,
                   envVars, files, serverVars, samplingVars, policyVars>>

\* createConsolidatedFiles(rawData, hourlyData, dailyData, clusterId), from the
\* read of `now` to the sixth writeFileSync.
Consolidate ==
    /\ aPc = "daily"
    /\ aPc' = "written"
    /\ gCluster' = "c1"
    /\ gToday' = clock
    /\ files' = [files EXCEPT !["c1"] =
                    [present |-> TRUE,
                     entries |-> [fileName \in FileNames |->
                                    consolidatedFile(fileName, aRaw, hourlyData, dailyData,
                                                     "c1", clock)]]]
    /\ UNCHANGED <<aRaw, gPc, gDates, gRnd, hourlyData, dailyMap, dailyData, gNext,
                   envVars, serverVars, samplingVars, policyVars>>

NextAggregation == DeriveHourly \/ DeriveDaily \/ Consolidate

SpecAggregation == InitAggregation /\ [][NextAggregation]_vars

\* The buckets of `bucket` minutes in which a series has points.
BucketsOf(points, bucket) == {points[k].timestamp \div bucket : k \in 1..Len(points)}

\* C19: for any chronological raw series the hourly aggregation outputs
\* exactly one point for each hour that holds a raw sample and none for an
\* empty hour, stamped at the exact hour boundary, in chronological order,
\* each channel value the arithmetic mean of exactly the raw samples of that
\* hour, rounded to one decimal.
C19_HourlyOnePointPerNonEmptyHour ==
    aPc \in {"hourly", "daily"} =>
        /\ BucketsOf(hourlyData, MinutesPerHour) = BucketsOf(aRaw, MinutesPerHour)
        /\ Len(hourlyData) = Cardinality(BucketsOf(aRaw, MinutesPerHour))
        /\ \A k \in 1..Len(hourlyData) : hourlyData[k].timestamp % MinutesPerHour = 0
        /\ \A k \in 1..(Len(hourlyData) - 1) :
              hourlyData[k].timestamp < hourlyData[k + 1].timestamp
        /\ AggregatedFrom(hourlyData, aRaw, MinutesPerHour)

\* Hours with several samples on both sides of hours without any.
C19_Witness ==
    /\ aPc = "hourly"
    /\ Len(aRaw) = MaxRawLen
    /\ aRaw[2].timestamp - aRaw[1].timestamp = 7
    /\ aRaw[16].timestamp - aRaw[15].timestamp = 207
    /\ Len(hourlyData) = 4
    /\ hourlyData[3].timestamp - hourlyData[2].timestamp = 4 * MinutesPerHour

\* C20: daily data is produced by aggregating the hourly series that was
\* itself aggregated from raw: it has exactly one point for every calendar
\* day that appears in the raw series and no other point, and each value is
\* the mean of the hourly points of that day, rounded to one decimal.
C20_DailyFromHourlyOnePerDay ==
    aPc = "daily" =>
        /\ BucketsOf(dailyData, MinutesPerDay) = BucketsOf(aRaw, MinutesPerDay)
        /\ Len(dailyData) = Cardinality(BucketsOf(aRaw, MinutesPerDay))
        /\ AggregatedFrom(dailyData, hourlyData, MinutesPerDay)
        /\ AggregatedFrom(hourlyData, aRaw, MinutesPerHour)

\* Samples on two days with a day without samples between them, and a daily
\* value that is not the mean of the day's raw samples.
C20_Witness ==
    /\ aPc = "daily"
    /\ Len(aRaw) = MaxRawLen
    /\ Len(dailyData) = 2
    /\ dailyData[2].timestamp \div MinutesPerDay - dailyData[1].timestamp \div MinutesPerDay = 2
    /\ Len(hourlyData) > 2
    /\ ~IsAggregateOf(dailyData[1],
                      InBucket(aRaw, MinutesPerDay, dailyData[1].timestamp \div MinutesPerDay))

\* ------------------------------------------- snapshot policy controller
\* The route uuids of the calls; "" is the parameter `!uuid` rejects.
PolicyUuids == {"p1", "p2"}
MaxPolicyTime == 2

\* The user fields of SnapshotPolicyRequest and the system fields of
\* SnapshotPolicy.  A nested object (schedule, deletion, locking) is one value:
\* the spread of update() is shallow and replaces it whole.
UserFields == {"name", "directory", "schedule", "deletion", "locking", "enabled"}
SystemFields == {"uuid", "createdAt", "updatedAt"}

\* generateMockPolicy(uuid): createdAt and updatedAt are two reads of the clock.
generateMockPolicy(uuid, createdAt, updatedAt) ==
    [uuid |-> uuid,
     name |-> "ProjectX_Daily",
     directory |-> "/Production/ProjectX",
     schedule |-> "daily 07:00 America/Los_Angeles mon-fri",
     deletion |-> "automatically after 14",
     locking |-> "disabled",
     enabled |-> TRUE,
     createdAt |-> createdAt,
     updatedAt |-> updatedAt]

\* fs.writeFileSync(getPolicyFilePath(uuid), JSON.stringify(policy))
writePolicy(store, uuid, policy) ==
    [u \in DOMAIN store \cup {uuid} |-> IF u = uuid THEN policy ELSE store[u]]

\* show() without the existsSync branch: a default is generated on every GET.
show_AlwaysGenerate(uuid, store, t1, t2) ==
    IF ~Truthy(uuid)
    THEN [status |-> 400, body |-> [error |-> "UUID is required"], store |-> store]
    ELSE LET mockPolicy == generateMockPolicy(uuid, t1, t2)
         IN  [status |-> 200, body |-> mockPolicy,
              store |-> writePolicy(store, uuid, mockPolicy)]

\* show(): the response and the store it leaves.  t1, t2 are the clock reads of
\* generateMockPolicy.
show(uuid, store, t1, t2) ==
    IF ~Truthy(uuid)
    THEN [status |-> 400, body |-> [error |-> "UUID is required"], store |-> store]
    ELSE IF uuid \notin DOMAIN store
    THEN LET mockPolicy == generateMockPolicy(uuid, t1, t2)
         IN  [status |-> 200, body |-> mockPolicy,
              store |-> writePolicy(store, uuid, mockPolicy)]
    ELSE [status |-> 200, body |-> store[uuid], store |-> store]

\* { ...existingPolicy, ...policyRequest }
Spread(existingPolicy, policyRequest) ==
    [f \in DOMAIN existingPolicy \cup DOMAIN policyRequest |->
        IF f \in DOMAIN policyRequest THEN policyRequest[f] ELSE existingPolicy[f]]

\* !policyRequest.name || !policyRequest.directory
MissingRequired(policyRequest) ==
    \E f \in {"name", "directory"} :
        f \notin DOMAIN policyRequest \/ policyRequest[f] = ""

\* update() with the request spread last: its system fields win.
update_RequestWins(uuid, policyRequest, store, t1, t2, t3) ==
    IF ~Truthy(uuid)
    THEN [status |-> 400, body |-> [error |-> "UUID is required"], store |-> store]
    ELSE IF MissingRequired(policyRequest)
    THEN [status |-> 400, body |-> [error |-> "Name and directory are required"],
          store |-> store]
    ELSE LET existingPolicy == IF uuid \in DOMAIN store
                               THEN store[uuid]
                               ELSE generateMockPolicy(uuid, t1, t2)
             updatedPolicy == Spread([existingPolicy EXCEPT !.updatedAt = t3],
                                     policyRequest)
         IN  [status |-> 200, body |-> updatedPolicy,
              store |-> writePolicy(store, uuid, updatedPolicy)]

\* update(): the response and the store it leaves.  t1, t2 are the clock reads
\* of generateMockPolicy, t3 the read of updatedAt.
update(uuid, policyRequest, store, t1, t2, t3) ==
    IF ~Truthy(uuid)
    THEN [status |-> 400, body |-> [error |-> "UUID is required"], store |-> store]
    ELSE IF MissingRequired(policyRequest)
    THEN [status |-> 400, body |-> [error |-> "Name and directory are required"],
          store |-> store]
    ELSE LET existingPolicy == IF uuid \in DOMAIN store
                               THEN store[uuid]
                               ELSE generateMockPolicy(uuid, t1, t2)
             updatedPolicy == [Spread(existingPolicy, policyRequest) EXCEPT
                                  !.uuid = uuid,
                                  !.createdAt = existingPolicy.createdAt,
                                  !.updatedAt = t3]
         IN  [status |-> 200, body |-> updatedPolicy,
              store |-> writePolicy(store, uuid, updatedPolicy)]

\* The bodies a PUT carries: a full request, one with only the required
\* fields, one that also carries system fields, and two that fail validation.
FullRequest ==
    [name |-> "Updated Policy", directory |-> "/updated/directory",
     schedule |-> "weekly 12:30 UTC sat-sun", deletion |-> "automatically after 7",
     locking |-> "enabled", enabled |-> FALSE]
RequiredOnlyRequest == [name |-> "Initial Policy", directory |-> "/initial/directory"]
SystemFieldsRequest ==
    [name |-> "Renamed", directory |-> "/initial/directory", deletion |-> "manually",
     uuid |-> "p2", createdAt |-> 0, updatedAt |-> 0]
PolicyRequests ==
    {FullRequest, RequiredOnlyRequest, SystemFieldsRequest,
     [directory |-> "/initial/directory"], [name |-> "", directory |-> "/x"]}

\* Time passes between two calls.
PolicyTick ==
    /\ pNow < MaxPolicyTime
    /\ pNow' = pNow + 1
    /\ UNCHANGED <<policies, pCall>>
    /\ UNCHANGED <<samplingVars, envVars, files, scriptVars, serverVars, aggVars>>

\* GET /api/snapshot-policy/:uuid.  The clock is read, twice, only when a
\* default is generated; each read is at or after the one before.
Show(uuid) ==
    /\ LET generated == Truthy(uuid) /\ uuid \notin DOMAIN policies
           latest == IF generated THEN MaxPolicyTime ELSE pNow
       IN  \E t1 \in pNow..latest : \E t2 \in t1..latest :
              LET out == show(uuid, policies, t1, t2)
              IN  /\ pNow' = t2
                  /\ policies' = out.store
                  /\ pCall' = [op |-> "show", uuid |-> uuid, request |-> NoBody,
                               existed |-> uuid \in DOMAIN policies,
                               status |-> out.status, body |-> out.body]
    /\ UNCHANGED <<samplingVars, envVars, files, scriptVars, serverVars, aggVars>>

\* PUT /api/snapshot-policy/:uuid.  A valid call reads the clock for updatedAt,
\* after the two reads of generateMockPolicy when no policy is stored.
Update(uuid, policyRequest) ==
    /\ LET valid == Truthy(uuid) /\ ~MissingRequired(policyRequest)
           generated == valid /\ uuid \notin DOMAIN policies
           latestMock == IF generated THEN MaxPolicyTime ELSE pNow
           latest == IF valid THEN MaxPolicyTime ELSE pNow
       IN  \E t1 \in pNow..latestMock : \E t2 \in t1..latestMock : \E t3 \in t2..latest :
              LET out == update(uuid, policyRequest, policies, t1, t2, t3)
              IN  /\ pNow' = t3
                  /\ policies' = out.store
                  /\ pCall' = [op |-> "update", uuid |-> uuid,
                               request |-> policyRequest,
                               existed |-> uuid \in DOMAIN policies,
                               status |-> out.status, body |-> out.body]
    /\ UNCHANGED <<samplingVars, envVars, files, scriptVars, serverVars, aggVars>>

NextPolicy ==
    \/ PolicyTick
    \/ \E uuid \in PolicyUuids \cup {""} : Show(uuid)
    \/ \E uuid \in PolicyUuids \cup {""}, policyRequest \in PolicyRequests :
          Update(uuid, policyRequest)

InitPolicy ==
    /\ policies = [u \in {} |-> NoBody]
    /\ pNow = 1
    /\ pCall = NoCall
    /\ clock = 0
    /\ tz = Utc
    /\ ticks = 0
    /\ files = [c \in DataDirs |-> NoDirectory]
    /\ ScriptIdle
    /\ ServerIdle
    /\ SamplingOff
    /\ AggregationOff

SpecPolicy == InitPolicy /\ [][NextPolicy]_vars

\* --------------------------------------------- claims: snapshot policies
\* C21: a GET for a uuid with no stored policy creates and persists a default
\* policy carrying that uuid and returns it; a GET for a uuid that has a stored
\* policy returns exactly that policy and leaves the store as it was, so no
\* second default is generated and createdAt and updatedAt do not change.
C21_GetCreatesOnceThenReturnsStored ==
    [][\A uuid \in PolicyUuids :
          Show(uuid) =>
              /\ pCall'.status = 200
              /\ DOMAIN policies' = DOMAIN policies \cup {uuid}
              /\ pCall'.body = policies'[uuid]
              /\ policies'[uuid].uuid = uuid
              /\ \A u \in DOMAIN policies : policies'[u] = policies[u]
              /\ uuid \notin DOMAIN policies =>
                    \E t1, t2 \in 0..MaxPolicyTime :
                        policies'[uuid] = generateMockPolicy(uuid, t1, t2)]_vars

\* A GET answered from the stored default after the clock has moved on.
C21_Witness ==
    /\ pCall.op = "show"
    /\ pCall.existed
    /\ pCall.status = 200
    /\ pCall.body.name = "ProjectX_Daily"
    /\ pCall.body = policies[pCall.uuid]
    /\ pNow > pCall.body.updatedAt

\* C22 as stated: after a valid PUT the stored policy carries the route uuid
\* and the createdAt of its first creation, and every other field equals the
\* field of the PUT body.  It fails for a body that leaves a field out (the
\* stored value is kept) and for a body that carries updatedAt (the clock wins).
C22_OtherFieldsEqualLastPutBody ==
    [][\A uuid \in PolicyUuids, policyRequest \in PolicyRequests :
          (Update(uuid, policyRequest) /\ ~MissingRequired(policyRequest)) =>
              /\ policies'[uuid].uuid = uuid
              /\ uuid \in DOMAIN policies =>
                    policies'[uuid].createdAt = policies[uuid].createdAt
              /\ \A f \in UserFields \cup {"updatedAt"} :
                    /\ f \in DOMAIN policyRequest
                    /\ policies'[uuid][f] = policyRequest[f]]_vars

\* C22 (amended): in every step a stored policy carries the uuid of its route
\* and keeps the createdAt it was first stored with, whatever uuid or createdAt
\* a PUT body carries; a valid PUT sets updatedAt to the time of the call and
\* each user field to the value the body carries, a field the body leaves out
\* keeping the value stored before (the default's for a new policy); any other
\* step leaves the stored policy as it was.
C22_SystemFieldsKeptUserFieldsMerged ==
    [][\A uuid \in PolicyUuids :
          LET policyRequest == pCall'.request
              put == /\ pCall'.op = "update"
                     /\ pCall'.uuid = uuid
                     /\ Update(uuid, policyRequest)
          IN  /\ uuid \in DOMAIN policies' => policies'[uuid].uuid = uuid
              /\ uuid \in DOMAIN policies =>
                    /\ uuid \in DOMAIN policies'
                    /\ policies'[uuid].createdAt = policies[uuid].createdAt
              /\ (put /\ ~MissingRequired(policyRequest)) =>
                    /\ policies'[uuid].updatedAt = pNow'
                    /\ \A f \in UserFields :
                          policies'[uuid][f] =
                              IF f \in DOMAIN policyRequest THEN policyRequest[f]
                              ELSE IF uuid \in DOMAIN policies THEN policies[uuid][f]
                              ELSE generateMockPolicy(uuid, 0, 0)[f]
              /\ (uuid \in DOMAIN policies /\ ~put) =>
                    policies'[uuid] = policies[uuid]]_vars

\* A PUT on a stored policy whose body carries another uuid and another
\* createdAt and leaves the schedule of an earlier PUT out.
C22_Witness ==
    /\ pCall.op = "update"
    /\ pCall.status = 200
    /\ pCall.existed
    /\ pCall.uuid = "p1"
    /\ pCall.request = SystemFieldsRequest
    /\ policies["p1"] = pCall.body
    /\ policies["p1"].uuid = "p1"
    /\ policies["p1"].createdAt > SystemFieldsRequest.createdAt
    /\ policies["p1"].createdAt < policies["p1"].updatedAt
    /\ policies["p1"].schedule = FullRequest.schedule

\* ------------------------------------------------ claims: stored datasets
\* The datasets stored in the data folder, as <<cluster, fileName>> pairs.
StoredDatasets ==
    {p \in DataDirs \X FileNames :
        files[p[1]].present /\ p[2] \in DOMAIN files[p[1]].entries}

StoredDataset(p) == files[p[1]].entries[p[2]]

\* C23: every stored dataset is tagged with the resolution the policy assigns
\* to its TimeRange (1min, 5min, 15min, 1h, 6h, 1d for 1h, 6h, 24h, 7d, 30d,
\* 90d), so that the stored tag is the resolution label served for the range.
C23_StoredTagIsPolicyResolution ==
    \A p \in StoredDatasets :
        StoredDataset(p).resolution = getResolution(StoredDataset(p).time_range)

\* The length of a TimeRange in minutes.
RangeMinutes(timeRange) ==
    CASE timeRange = "1h" -> MinutesPerHour
      [] timeRange = "6h" -> 6 * MinutesPerHour
      [] timeRange = "24h" -> MinutesPerDay
      [] timeRange = "7d" -> 7 * MinutesPerDay
      [] timeRange = "30d" -> 30 * MinutesPerDay
      [] timeRange = "90d" -> 90 * MinutesPerDay

\* The samples of a series in the inclusive window [now - range, now].
InWindow(points, timeRange, now) ==
    SelectSeq(points, LAMBDA p : /\ p.timestamp >= now - RangeMinutes(timeRange)
                                 /\ p.timestamp <= now)

\* The series createConsolidatedFiles filters for a dataset.
SourceOf(fileName, raw, hourly, daily) ==
    CASE fileName \in {"raw-metrics-1h.json", "raw-metrics-6h.json", "raw-metrics-24h.json"}
            -> raw
      [] fileName \in {"hourly-aggregated-7d.json", "hourly-aggregated-30d.json"}
            -> hourly
      [] OTHER -> daily

\* The datasets Consolidate wrote.
Consolidated == aPc = "written"

\* C24 as stated: for each TimeRange, the 90d range included, the persisted
\* dataset holds exactly the samples of its source series whose timestamp lies
\* in the inclusive window [now - range, now], in source order, `now` being the
\* generation time truncated to the minute.
C24_EveryDatasetIsWindowOfSource ==
    Consolidated =>
        \A fileName \in FileNames :
            LET doc == files[gCluster].entries[fileName]
            IN  doc.data = Columns(InWindow(SourceOf(fileName, aRaw, hourlyData, dailyData),
                                            doc.time_range, gToday))

\* C24 (amended): the datasets of 1h, 6h and 24h hold exactly the raw samples,
\* those of 7d and 30d exactly the hourly points, whose timestamp lies in the
\* inclusive window [now - range, now], in source order; the dataset of 90d is
\* the whole daily series, whether or not its points lie in the window.
C24_WindowOfSourceExceptNinetyDays ==
    Consolidated =>
        \A fileName \in FileNames :
            LET doc == files[gCluster].entries[fileName]
                source == SourceOf(fileName, aRaw, hourlyData, dailyData)
            IN  IF doc.time_range = "90d"
                THEN doc.data = Columns(dailyData)
                ELSE doc.data = Columns(InWindow(source, doc.time_range, gToday))

\* The daily series of the script's 91 dates in a zone east of UTC: the 90d
\* dataset holds the point of a day before now - 90d, while the 7d and 30d
\* datasets are cut to their windows.
C24_Witness ==
    /\ Consolidated
    /\ tz = FixedZone(480)
    /\ Len(dailyData) = ScriptHistoryDays + 1
    /\ Len(Dataset("daily-aggregated-90d.json").timestamps) = ScriptHistoryDays + 1
    /\ Dataset("daily-aggregated-90d.json").timestamps[1] < gToday - 90 * MinutesPerDay
    /\ Len(hourlyData) = ScriptHistoryDays + 1
    /\ Len(Dataset("hourly-aggregated-30d.json").timestamps) = 29
    /\ Len(Dataset("hourly-aggregated-7d.json").timestamps) = 6

\* ------------------------------------------- claims: the daily loop's clock
\* C25: all daily points produced by one daily aggregation carry the same
\* hour:minute stamp, however the clock advances while the loop runs.
C25_DailyPointsShareHourMinute ==
    \A j, k \in 1..Len(dailyData) :
        dailyData[j].timestamp % MinutesPerDay = dailyData[k].timestamp % MinutesPerDay

\* --------------------------------------------------- claims: failure values
Failed == Answered /\ resp.status \in {400, 500}

\* C26 as stated: the failure returned for a missing dataset, like the one for
\* a validation failure, is a value that identifies the entity and the time
\* range of the request.
C26_FailureIdentifiesEntityAndRange ==
    Failed =>
        /\ "clusterId" \in DOMAIN resp.body
        /\ "timeRange" \in DOMAIN resp.body

\* C26 (amended): a failure is told apart by its HTTP status and a fixed
\* message only: 400 with { error: 'clusterId is required' } for a validation
\* failure, 500 with { error: 'Failed to load metrics data' } for a missing
\* dataset; the body has no other field and is the same for every entity and
\* every time range.
C26_FailureIsStatusAndFixedMessage ==
    Failed =>
        /\ DOMAIN resp.body = {"error"}
        /\ resp.status = 400 => resp.body.error = "clusterId is required"
        /\ resp.status = 500 => resp.body.error = "Failed to load metrics data"

\* The dataset of c2 for 7d is missing: the failure names neither.
C26_Witness ==
    /\ Failed
    /\ resp.status = 500
    /\ req.clusterId = "c2"
    /\ req.timeRange = "7d"
    /\ DatasetMissing("c2", "7d")
    /\ resp.body = [error |-> "Failed to load metrics data"]

\* ----------------------------------------------- claims: order of a series
\* C27: every series served by a request, for every TimeRange and after any
\* regeneration, has strictly increasing timestamps with no duplicates.
C27_ServedTimestampsStrictlyIncrease ==
    Succeeded => StrictlyIncreasing(resp.body.data.timestamps)

MsPerMinute == 60000

\* C29: for each of the six TimeRange values, the target point count times
\* the interval in milliseconds of the range's policy resolution equals the
\* length of the range in milliseconds (60 x 1min = 1h, 72 x 5min = 6h,
\* 96 x 15min = 24h, 168 x 1h = 7d, 120 x 6h = 30d, 90 x 1d = 90d).  The
\* interval is a whole number of minutes, and the products are compared in
\* minutes: 90 x 86400000 does not fit the 32-bit integers of the checker.
C29_PointsTimesIntervalIsRange ==
    (PolicyApplied /\ sTimeRange \in TimeRanges) =>
        LET interval == getIntervalMs(sTargetResolution)
        IN  /\ interval % MsPerMinute = 0
            /\ sTargetPoints * (interval \div MsPerMinute) = RangeMinutes(sTimeRange)

\* The policy applied to the 30d range: 120 points six hours apart.
C29_Witness ==
    /\ sPc = "sampled"
    /\ sTimeRange = "30d"
    /\ sTargetResolution = "6h"
    /\ sTargetPoints = 120
    /\ getIntervalMs(sTargetResolution) = 21600000
    /\ Len(sData.timestamps) > 120

\* ------------------------------------------- claims: the ends of a decimated series
\* C30: whenever decimation reduces a stored series (N > T), the returned
\* series starts with the first stored point and does not contain the last
\* stored point, so metadata.startTime is the first stored timestamp and
\* metadata.endTime is strictly earlier than the last stored timestamp.
C30_DecimatedKeepsFirstDropsLast ==
    (sPc = "sampled" /\ Len(sData.timestamps) > sTargetPoints) =>
        LET n == Len(sData.timestamps)
            metadata == metricsResult("c1", sTimeRange, sTargetResolution, sResult).metadata
        IN  /\ RowAt(sResult, 1) = RowAt(sData, 1)
            /\ \A k \in 1..Len(sResult.timestamps) : RowAt(sResult, k) # RowAt(sData, n)
            /\ sIndices[1] = 0
            /\ \A k \in 1..Len(sIndices) : sIndices[k] < n - 1
            /\ metadata.startTime = sData.timestamps[1]
            /\ metadata.endTime < sData.timestamps[n]

\* 200 stored points a minute apart sampled down to the 168 of 7d: the last
\* point returned is the 199th.
C30_Witness ==
    /\ sPc = "sampled"
    /\ sTimeRange = "7d"
    /\ Len(sData.timestamps) = MaxSeriesLen
    /\ Len(sResult.timestamps) = 168
    /\ sResult.timestamps[1] = sData.timestamps[1]
    /\ sResult.timestamps[168] = sData.timestamps[MaxSeriesLen - 1]

====
